---- MODULE Spec2Model ----
(***************************************************************************)
(* A model of the mARCHCode control plane: the idempotent patch applier    *)
(* (core/fs_apply.py), the decision router (core/decision_router.py,       *)
(* core/error_policy.py), the self-dev policy gate                         *)
(* (core/self_dev_policy.py), the orchestrator (core/orchestrator.py) and  *)
(* the green tag / rollback scripts (scripts/green_tag.py,                 *)
(* scripts/rollback_to_last_green.py).                                     *)
(*                                                                         *)
(* Text is modelled as a sequence of one-character strings.  The two       *)
(* sentinel tokens are abbreviated: "b" stands for the characters          *)
(* "{begin_meta:" and "e" for "{end_meta}", so that "#b" is the begin      *)
(* sentinel "#{begin_meta:" and "#e" the end sentinel "#{end_meta}".  The  *)
(* substrings the checkers look for, "def " and ".py", are single tokens.  *)
(* Each component has its own specification over the shared variables;     *)
(* the variables of the other components stay idle.                        *)
(***************************************************************************)
EXTENDS Integers, Sequences, FiniteSets, TLC

VARIABLES
    fsCode,      \* pb.code: the envelope text handed to the applier
    fsFile,      \* the target file: [parent, exists, text]
    fsHistory,   \* pb.history
    fsCalls,     \* the apply calls made so far, oldest first
    gitOut,      \* how the last apply_and_commit_git ended, NoGit before the first
    rtIn,        \* the envelope fields and policy mode handed to the router
    rtOut,       \* the Decision of route_after_checks, NoDecision before the call
    mapOut,      \* the result of map_error_to_next_action, "none" before the call
    plIn,        \* the arguments of evaluate_patch: policy, pb, diff, branch, count
    plEvals,     \* the evaluations made so far: [mode, ok, violations]
    runIn,       \* the arguments of run_patch_local
    runOut,      \* the runs made so far, oldest first
    gmRepo,      \* the git repository, its archive directory and its origin
    gmLast       \* the last run of tag-green or of rollback-to-last-green

fsVars == <<fsCode, fsFile, fsHistory, fsCalls, gitOut>>
rtVars == <<rtIn, rtOut, mapOut>>
plVars == <<plIn, plEvals>>
runVars == <<runIn, runOut>>
gmVars == <<gmRepo, gmLast>>

vars == <<fsCode, fsFile, fsHistory, fsCalls, gitOut, rtIn, rtOut, mapOut,
          plIn, plEvals, runIn, runOut, gmRepo, gmLast>>

---------------------------------------------------------------------------
(* Bounds *)

MaxPayload == 1   \* payload lines of an envelope that carries markers
MaxCalls == 3     \* apply calls in one behaviour
MaxEvals == 2     \* policy modes one patch is evaluated under
MaxRuns == 1      \* orchestrator runs on one envelope
MaxSmokeRuns == 2 \* orchestrator runs on one envelope in one repository
MaxCommits == 2   \* commits in the repository
MaxDay == 2       \* days the scripts are run on
MaxScripts == 2   \* runs of tag-green and rollback-to-last-green

---------------------------------------------------------------------------
(* Python string primitives *)

LF == "\n"
SP == " "

\* text[a:b] with 0-based a, b (0 <= a, b <= len)
Slice(s, a, b) == IF b <= a THEN <<>> ELSE SubSeq(s, a + 1, b)

IsAt(text, pat, i) ==
    /\ i + Len(pat) <= Len(text)
    /\ Slice(text, i, i + Len(pat)) = pat

\* str.find: 0-based index of the first occurrence, -1 when there is none
FirstOf(hits) == IF hits = {} THEN -1 ELSE CHOOSE i \in hits : \A j \in hits : i <= j

find(text, pat) == FirstOf({i \in 0..Len(text) : IsAt(text, pat, i)})

contains(text, pat) == find(text, pat) # -1

startswith(text, pat) == IsAt(text, pat, 0)

endswith(text, pat) ==
    Len(pat) <= Len(text) /\ Slice(text, Len(text) - Len(pat), Len(text)) = pat

\* str.splitlines on "\n"
RECURSIVE splitlines(_)
RECURSIVE SplitAt(_, _)
SplitAt(s, k) ==
    IF k = -1 THEN <<s>>
    ELSE <<Slice(s, 0, k)>> \o splitlines(Slice(s, k + 1, Len(s)))

splitlines(s) == IF s = <<>> THEN <<>> ELSE SplitAt(s, find(s, <<LF>>))

\* "\n".join(lines)
RECURSIVE join(_)
join(lines) ==
    IF lines = <<>> THEN <<>>
    ELSE IF Len(lines) = 1 THEN lines[1]
    ELSE lines[1] \o <<LF>> \o join(Tail(lines))

\* s.rstrip("\n")
RECURSIVE rstripLF(_)
rstripLF(s) ==
    IF s # <<>> /\ s[Len(s)] = LF THEN rstripLF(Slice(s, 0, Len(s) - 1)) ELSE s

IsSpace(c) == c \in {SP, LF}

\* s.strip()
RECURSIVE strip(_)
strip(s) ==
    IF s = <<>> THEN s
    ELSE IF IsSpace(s[1]) THEN strip(Tail(s))
    ELSE IF IsSpace(s[Len(s)]) THEN strip(Slice(s, 0, Len(s) - 1))
    ELSE s

---------------------------------------------------------------------------
(* core/fs_apply.py *)

BEGIN == <<"#", "b">>
END == <<"#", "e">>

\* hashlib.sha256(...).hexdigest()[:12]: a digest, collision-free on the
\* texts of the model
sha256_short(s) == <<"sha">> \o s

IsBeginLine(ln) == startswith(ln, BEGIN)
IsEndLine(ln) == strip(ln) = END

\* next(i for i, ln in enumerate(lines) if ...): 1-based, 0 when exhausted
FirstIn(hits) == IF hits = {} THEN 0 ELSE CHOOSE i \in hits : \A j \in hits : i <= j

FirstBegin(lines) == FirstIn({i \in 1..Len(lines) : IsBeginLine(lines[i])})

FirstEndAfter(lines, i_begin) ==
    FirstIn({i \in (i_begin + 1)..Len(lines) : IsEndLine(lines[i])})

\* markers are taken from the first and last inner line when there are at
\* least this many inner lines
MarkerThreshold == 3

HasMarkers(inner) == Len(inner) >= MarkerThreshold

PayloadLinesOf(inner) ==
    IF HasMarkers(inner) THEN SubSeq(inner, 2, Len(inner) - 1) ELSE inner

SplitInner(begin_meta_line, inner, end_meta_line) ==
    [ok |-> TRUE,
     begin_meta_line |-> begin_meta_line,
     has_markers |-> HasMarkers(inner),
     marker_begin |-> IF HasMarkers(inner) THEN inner[1] ELSE <<>>,
     payload |-> rstripLF(join(PayloadLinesOf(inner))),
     marker_end |-> IF HasMarkers(inner) THEN inner[Len(inner)] ELSE <<>>,
     end_meta_line |-> end_meta_line]

SplitAtEnd(lines, i_begin, i_end) ==
    IF i_end = 0 THEN [ok |-> FALSE, error |-> "end_meta introuvable"]
    ELSE SplitInner(lines[i_begin], SubSeq(lines, i_begin + 1, i_end - 1), lines[i_end])

SplitAtBegin(lines, i_begin) ==
    IF i_begin = 0 THEN [ok |-> FALSE, error |-> "begin_meta introuvable"]
    ELSE SplitAtEnd(lines, i_begin, FirstEndAfter(lines, i_begin))

SplitLines(lines) == SplitAtBegin(lines, FirstBegin(lines))

split_block(code) == SplitLines(splitlines(code))

\* where the payload window starts
PayloadStart(after_begin, tail, end_rel) ==
    IF contains(Slice(tail, 0, end_rel), <<LF>>)
    THEN after_begin + find(tail, <<LF>>) + 1
    ELSE after_begin

Window(text, payload_start, payload_end) ==
    [found |-> TRUE,
     start_idx |-> payload_start,
     end_idx |-> payload_end,
     payload |-> Slice(text, payload_start, payload_end)]

ExtractEnd(text, after_begin, tail, end_rel) ==
    IF end_rel = -1 THEN [found |-> FALSE]
    ELSE Window(text, PayloadStart(after_begin, tail, end_rel), after_begin + end_rel)

ExtractTail(text, after_begin, tail, m_end) ==
    ExtractEnd(text, after_begin, tail, find(tail, m_end))

ExtractFrom(text, start, m_begin, m_end) ==
    IF start = -1 THEN [found |-> FALSE]
    ELSE ExtractTail(text, start + Len(m_begin),
                     Slice(text, start + Len(m_begin), Len(text)), m_end)

extract_between_markers(text, m_begin, m_end) ==
    ExtractFrom(text, find(text, m_begin), m_begin, m_end)

\* the text of the file after a replace between the markers
ReplaceText(current, start_idx, end_idx, payload_new) ==
    Slice(current, 0, start_idx) \o payload_new \o Slice(current, end_idx, Len(current))

\* an insert that writes the envelope over the file
InsertOverwrites(current, code) ==
    code \o (IF endswith(code, <<LF>>) THEN <<>> ELSE <<LF>>)

\* the text of the file after an insert (append of the whole envelope)
InsertSep(current) ==
    IF endswith(current, <<LF>>) \/ current = <<>> THEN <<>> ELSE <<LF>>

InsertText(current, code) ==
    current \o InsertSep(current) \o code
            \o (IF endswith(code, <<LF>>) THEN <<>> ELSE <<LF>>)

\* full-file mode: the file already holds the envelope
FullFileSame(current, code) ==
    current = code \/ sha256_short(current) = sha256_short(code)

WrittenFile(t) == [parent |-> TRUE, exists |-> TRUE, text |-> t]

HistoryLine(ev, mode, hash_new) ==
    <<[ev |-> ev, mode |-> mode, payload_hash |-> hash_new]>>

\* a skip that leaves no trace in the history
SkippedSilently(file, mode, hash_new) ==
    [raised |-> FALSE, action |-> "skip", written |-> 0, file |-> file,
     history |-> <<>>]

Skipped(file, mode, hash_new) ==
    [raised |-> FALSE, action |-> "skip", written |-> 0, file |-> file,
     history |-> HistoryLine("fs:skip", mode, hash_new)]

Replaced(new_text, mode, hash_new) ==
    [raised |-> FALSE, action |-> "replace", written |-> Len(new_text),
     file |-> WrittenFile(new_text),
     history |-> HistoryLine("fs:replace", mode, hash_new)]

Inserted(current, new_text, hash_new) ==
    [raised |-> FALSE, action |-> "insert", written |-> Len(new_text) - Len(current),
     file |-> WrittenFile(new_text),
     history |-> HistoryLine("fs:insert", "markers", hash_new)]

\* an error raised once the parent directory has been created
RaisedAfterMkdir(file) ==
    [raised |-> TRUE, action |-> "error", written |-> 0,
     file |-> [file EXCEPT !.parent = TRUE], history |-> <<>>]

Raised(file) ==
    [raised |-> TRUE, action |-> "error", written |-> 0, file |-> file,
     history |-> <<>>]

\* markers found in the file: compare the window with the new payload
ApplyWindow(file, current, payload_new, ex) ==
    IF sha256_short(ex.payload) = sha256_short(payload_new)
    THEN Skipped(file, "markers", sha256_short(payload_new))
    ELSE Replaced(ReplaceText(current, ex.start_idx, ex.end_idx, payload_new),
                  "markers", sha256_short(payload_new))

ApplyMarkers(code, file, current, payload_new, ex) ==
    IF ex.found
    THEN ApplyWindow(file, current, payload_new, ex)
    ELSE Inserted(current, InsertText(current, code), sha256_short(payload_new))

ApplyFullFile(code, file, current, payload_new) ==
    IF FullFileSame(current, code)
    THEN Skipped(file, "fullfile", sha256_short(payload_new))
    ELSE Replaced(code, "fullfile", sha256_short(payload_new))

ApplySplit(code, file, current, sb) ==
    IF ~sb.ok THEN Raised(file)
    ELSE IF sb.has_markers
    THEN ApplyMarkers(code, file, current, sb.payload,
                      extract_between_markers(current, sb.marker_begin, sb.marker_end))
    ELSE ApplyFullFile(code, file, current, sb.payload)

CurrentText(file) == IF file.exists THEN file.text ELSE <<>>

\* what one call of apply_patchblock_to_file does to `file` for envelope `code`:
\* [raised, action, written, file, history (the entries appended)]
apply_patchblock_to_file(code, file) ==
    ApplySplit(code, file, CurrentText(file), split_block(code))

---------------------------------------------------------------------------
(* The envelopes and target files the applier is run on *)

\* marker lines and payload lines of the envelopes
MarkerLines == {<<"m">>, <<"n">>}
PayloadLines == {<<"x">>, <<"y">>}

\* full-file envelopes hold fewer inner lines than the marker heuristic asks for
FullFileInner == UNION {[1..k -> PayloadLines] : k \in 0..(MarkerThreshold - 1)}

\* marker envelopes: marker-begin, 1..MaxPayload payload lines, marker-end
MarkerPairs == {mk \in MarkerLines \X MarkerLines : mk[1] # mk[2]}

MarkerInner == {<<mk[1]>> \o p \o <<mk[2]>> :
                   mk \in MarkerPairs,
                   p \in UNION {[1..k -> PayloadLines] : k \in 1..MaxPayload}}

InnerSeqs == FullFileInner \cup MarkerInner

\* sentinel lines of an envelope: the begin line bare or with inline metadata
\* that quotes the marker text, the end line with or without a final newline
\* or trailing blank
Frames == {<<BEGIN, END \o <<LF>>>>,
           <<BEGIN \o <<"m">>, END>>,
           <<BEGIN, END \o <<SP, LF>>>>}

Envelope(fr, inner) == join(<<fr[1]>> \o inner) \o <<LF>> \o fr[2]

\* an envelope whose payload line quotes the text of its marker-end line
EchoEnvelope == Envelope(<<BEGIN, END \o <<LF>>>>, <<<<"m">>, <<"x", "n">>, <<"n">>>>)

WellFormed ==
    {Envelope(fr, inner) : fr \in Frames, inner \in InnerSeqs} \cup {EchoEnvelope}

\* envelopes that lack a sentinel line
\* (no begin line, no end line, the end line before the begin line, a begin
\* sentinel that does not start its line, an end sentinel followed by text)
Malformed ==
    {<<"x", LF>> \o END,
     BEGIN \o <<LF, "x">>,
     END \o <<LF>> \o BEGIN,
     <<"x">> \o BEGIN \o <<LF>> \o END,
     BEGIN \o <<LF>> \o END \o <<"x">>}

Envelopes == WellFormed \cup Malformed

\* an unset optional value
None == "None"

\* apply_and_commit_git has not been called
NoGit == [outcome |-> "none", raised |-> FALSE, returned |-> None,
          commit_sha |-> None, wrote |-> FALSE]

NoFile == [parent |-> FALSE, exists |-> FALSE, text |-> <<>>]
NoFileInDir == [parent |-> TRUE, exists |-> FALSE, text |-> <<>>]
FileWith(t) == [parent |-> TRUE, exists |-> TRUE, text |-> t]

InitialTexts ==
    {<<>>,
     <<"y">>,
     <<"y", LF>>,
     <<"m", LF, "y", LF, "n", LF>>,
     <<"m", LF, "x", "n", LF>>,
     <<"n", LF, "m", LF>>}

InitialFiles == {NoFile, NoFileInDir} \cup {FileWith(t) : t \in InitialTexts}

\* the sentinel and marker lines of each envelope, and its payload
FrameOfSplit(c, sb) ==
    <<sb.has_markers, sb.begin_meta_line, sb.end_meta_line,
      sb.marker_begin, sb.marker_end, endswith(c, <<LF>>)>>

FrameOf == [c \in WellFormed |-> FrameOfSplit(c, split_block(c))]

PayloadOf == [c \in WellFormed |-> split_block(c).payload]

\* c2 is c1 with its payload changed: same sentinels, same markers
SameFrame(c1, c2) == FrameOf[c1] = FrameOf[c2] /\ PayloadOf[c1] # PayloadOf[c2]

FsStart ==
    /\ fsCode \in Envelopes
    /\ fsFile \in InitialFiles
    /\ fsHistory = <<>>
    /\ fsCalls = <<>>
    /\ gitOut = NoGit

\* the applier is not part of the run
FsIdle ==
    /\ fsCode = <<>>
    /\ fsFile = NoFile
    /\ fsHistory = <<>>
    /\ fsCalls = <<>>
    /\ gitOut = NoGit

\* apply_patchblock_to_file(pb) on the current envelope
Apply ==
    /\ Len(fsCalls) < MaxCalls
    /\ \E r \in {apply_patchblock_to_file(fsCode, fsFile)} :
          /\ fsFile' = r.file
          /\ fsHistory' = fsHistory \o r.history
          /\ fsCalls' = Append(fsCalls, [code |-> fsCode, pre |-> fsFile,
                                         post |-> r.file, raised |-> r.raised,
                                         action |-> r.action, written |-> r.written])
    /\ UNCHANGED <<fsCode, gitOut, rtVars, plVars, runVars, gmVars>>

\* the generator re-emits the envelope with a changed payload (same markers)
EditPayload ==
    /\ Len(fsCalls) >= 1
    /\ Len(fsCalls) < MaxCalls
    /\ \A i \in 1..Len(fsCalls) : fsCalls[i].code = fsCode
    /\ fsCode \in WellFormed
    /\ \E c \in WellFormed :
          /\ SameFrame(fsCode, c)
          /\ fsCode' = c
    /\ UNCHANGED <<fsFile, fsHistory, fsCalls, gitOut, rtVars, plVars, runVars, gmVars>>

---------------------------------------------------------------------------
(* agents/acw.py, adapters/git_adapter.py: the other writers of pb.history *)

\* the entries write_code leaves in the history of the envelope it returns
WriterHistory(code) ==
    HistoryLine("fs_intent",
                IF split_block(code).has_markers THEN "markers" ELSE "fullfile", <<>>)
    \o HistoryLine("payload_hash", "-", sha256_short(split_block(code).payload))

\* how apply_and_commit_git goes: a dry run; ensure_branch fails; git add or
\* git commit fails; the push that was asked for fails; or nothing fails
GitOutcomes == {"committed", "dry_run", "commit_failed", "branch_failed", "push_failed"}

\* the commit was made
GitCommitted(outcome) == outcome \in {"committed", "push_failed"}

\* the entries apply_and_commit_git appends: HEAD before the call, then the
\* commit and, when HEAD was known, its post-commit archive
GitHistory(head_known, outcome) ==
    HistoryLine("git:previous_sha", IF head_known THEN "known" ELSE "UNKNOWN", <<>>)
    \o (IF GitCommitted(outcome)
         THEN HistoryLine("git:commit_sha", "-", <<>>)
              \o (IF head_known
                  THEN HistoryLine("git:archive_patch_post_commit", "-", <<>>)
                  ELSE <<>>)
         ELSE <<>>)

GitResult(file, history, outcome, raised, returned, commit_sha, wrote) ==
    [file |-> file, history |-> history,
     out |-> [outcome |-> outcome, raised |-> raised, returned |-> returned,
              commit_sha |-> commit_sha, wrote |-> wrote]]

\* ensure_branch raises before the file is written; write_patch_to_fs writes
\* pb.code over the file; stage_and_commit raises; optional_push does not
apply_and_commit_git(code, file, head_known, outcome) ==
    IF outcome = "branch_failed"
    THEN GitResult(file, GitHistory(head_known, outcome),
                   outcome, TRUE, None, None, FALSE)
    ELSE IF outcome = "commit_failed"
    THEN GitResult(WrittenFile(code), GitHistory(head_known, outcome),
                   outcome, TRUE, None, None, TRUE)
    ELSE IF outcome = "dry_run"
    THEN GitResult(WrittenFile(code), GitHistory(head_known, outcome),
                   outcome, FALSE, "DRY-RUN", None, TRUE)
    ELSE GitResult(WrittenFile(code), GitHistory(head_known, outcome),
                   outcome, FALSE, "sha", "sha", TRUE)

\* the runs of apply_and_commit_git recorded in a history
GitRuns(history) ==
    Cardinality({i \in 1..Len(history) : history[i].ev = "git:previous_sha"})

\* apply_and_commit_git(pb, options=...) on the current envelope
ApplyAndCommit ==
    /\ GitRuns(fsHistory) < MaxRuns
    /\ \E head_known \in BOOLEAN, outcome \in GitOutcomes :
          \E r \in {apply_and_commit_git(fsCode, fsFile, head_known, outcome)} :
             /\ fsFile' = r.file
             /\ fsHistory' = fsHistory \o r.history
             /\ gitOut' = r.out
    /\ UNCHANGED <<fsCode, fsCalls, rtVars, plVars, runVars, gmVars>>

\* envelopes as the generator emits them (the begin line quotes the marker,
\* no final newline): one with markers, one without; and one that lacks its
\* end sentinel
GenFrame == <<BEGIN \o <<"m">>, END>>

HistEnvelopes ==
    {Envelope(GenFrame, <<<<"m">>, <<"x">>, <<"n">>>>),
     Envelope(GenFrame, <<<<"x">>>>),
     BEGIN \o <<LF, "x">>}

\* the history is the writer's, or empty for an envelope built by hand
HistStart ==
    /\ fsCode \in HistEnvelopes
    /\ fsFile \in {NoFile, FileWith(<<"y", LF>>)}
    /\ fsHistory = (IF fsCode \in WellFormed THEN WriterHistory(fsCode) ELSE <<>>)
    /\ fsCalls = <<>>
    /\ gitOut = NoGit

---------------------------------------------------------------------------
(* core/error_policy.py, core/decision_router.py *)

\* `v or ""`
OrEmpty(v) == IF v = None THEN "" ELSE v

\* truth value of an optional string
Truthy(v) == v \notin {None, ""}

\* str.lower() on the values of the model
lower(v) ==
    CASE v = "OK" -> "ok"
      [] v = "Rejected" -> "rejected"
      [] v = "ACCEPT" -> "accept"
      [] v = "Rollback" -> "rollback"
      [] v = "ENFORCE" -> "enforce"
      [] v = "Warn" -> "warn"
      [] v = ".PNG" -> ".png"
      [] OTHER -> v

\* ErrorCategory
SYNTAX == "syntax_error"
MODULE_INCOHERENCE == "module_incoherence"
POLICY_VIOLATION == "policy_violation"
FATAL == "fatal"
UNKNOWN == "unknown"

\* a mapping whose default is not the conservative one
map_error_default_apply(category, policy_mode) ==
    IF category = SYNTAX THEN "retry"
    ELSE IF category = MODULE_INCOHERENCE THEN "retry"
    ELSE IF category = POLICY_VIOLATION
    THEN (IF policy_mode = "enforce" THEN "rollback" ELSE "retry")
    ELSE IF category = FATAL THEN "rollback"
    ELSE "apply"

map_error_to_next_action(category, policy_mode) ==
    IF category = SYNTAX THEN "retry"
    ELSE IF category = MODULE_INCOHERENCE THEN "retry"
    ELSE IF category = POLICY_VIOLATION
    THEN (IF policy_mode = "enforce" THEN "rollback" ELSE "retry")
    ELSE IF category = FATAL THEN "rollback"
    ELSE "retry"

\* the action derived from a mapped error category
MappedAction(mapped) ==
    IF mapped = "rollback" THEN "rollback"
    ELSE IF mapped = "retry" THEN "retry"
    ELSE IF mapped = "apply" THEN "apply"
    ELSE "retry"

\* a fallback that applies on either half of (ok, accept)
FallbackEither(gs, na) ==
    IF gs = "ok" \/ na = "accept" THEN "apply"
    ELSE IF na = "rollback" \/ gs = "rejected" THEN "rollback"
    ELSE "retry"

\* a fallback that tests the rollback conditions first
FallbackRollbackFirst(gs, na) ==
    IF na = "rollback" \/ gs = "rejected" THEN "rollback"
    ELSE IF na = "accept" THEN "apply"
    ELSE "retry"

\* the historical fallback on (global_status, next_action), both lower-cased
FallbackAction(gs, na) ==
    IF gs = "ok" /\ na = "accept" THEN "apply"
    ELSE IF na = "rollback" \/ gs = "rejected" THEN "rollback"
    ELSE "retry"

RouteAction(gs, na, error_category) ==
    IF Truthy(error_category)
    THEN MappedAction(map_error_to_next_action(error_category, "enforce"))
    ELSE FallbackAction(gs, na)

Decision(action, gs, na) ==
    [action |-> action, global_status |-> gs, next_action |-> na]

NoDecision == Decision("none", "", "")

RouteLowered(gs, na, error_category) ==
    Decision(RouteAction(gs, na, error_category), gs, na)

\* pb is a record with global_status, next_action and error_category
route_after_checks(pb) ==
    RouteLowered(lower(OrEmpty(pb.global_status)), lower(OrEmpty(pb.next_action)),
                 pb.error_category)

---------------------------------------------------------------------------
(* The envelopes the router is called on *)

GlobalStatuses == {"ok", "pending", "rejected", "partial_ok"}
NextActions == {"accept", "retry", "rollback"}
ErrorCategories == {SYNTAX, MODULE_INCOHERENCE, POLICY_VIOLATION, FATAL, UNKNOWN}
PolicyModes == {"enforce", "warn", "off"}

\* values outside the enumerations: unset, empty, a case variant, a foreign word
GlobalStatusInputs == GlobalStatuses \cup {None, "OK", "Rejected", "done"}
NextActionInputs == NextActions \cup {None, "ACCEPT", "Rollback", "abort"}
ErrorCategoryInputs == ErrorCategories \cup {None, "", "syntax", "timeout"}
PolicyModeInputs == PolicyModes \cup {None, "ENFORCE", "strict"}

RouterInputs ==
    [global_status : GlobalStatusInputs, next_action : NextActionInputs,
     error_category : ErrorCategoryInputs, mode : PolicyModeInputs]

RtStart ==
    /\ rtIn \in RouterInputs
    /\ rtOut = NoDecision
    /\ mapOut = "none"

RtIdle ==
    /\ rtIn = [global_status |-> None, next_action |-> None,
               error_category |-> None, mode |-> None]
    /\ rtOut = NoDecision
    /\ mapOut = "none"

\* route_after_checks(pb)
Route ==
    /\ rtOut = NoDecision
    /\ rtOut' = route_after_checks(rtIn)
    /\ UNCHANGED <<rtIn, mapOut, fsVars, plVars, runVars, gmVars>>

\* map_error_to_next_action(pb.error_category, policy_mode=mode)
MapError ==
    /\ mapOut = "none"
    /\ mapOut' = map_error_to_next_action(rtIn.error_category, rtIn.mode)
    /\ UNCHANGED <<rtIn, rtOut, fsVars, plVars, runVars, gmVars>>

---------------------------------------------------------------------------
(* core/self_dev_policy.py *)
(* A path or a branch name is a sequence of segments ("infra/", "a",       *)
(* ".png"); a glob pattern is a sequence of segments that may end in "**". *)
(* An unset (None) path list or branch name is the empty sequence, which   *)
(* the code treats as it treats None.                                      *)

\* fnmatch.fnmatch(name, pat) for literal patterns and patterns ending in **
fnmatch(name, pat) ==
    IF pat # <<>> /\ pat[Len(pat)] = "**"
    THEN startswith(name, SubSeq(pat, 1, Len(pat) - 1))
    ELSE name = pat

AnyMatch(p, pats) == \E i \in 1..Len(pats) : fnmatch(p, pats[i])

\* str.lower() on the segments of a path
lowerPath(p) == [i \in 1..Len(p) |-> lower(p[i])]

SelfBranchPrefix == <<"archcode-self/">>

DefaultLimits ==
    [max_files_changed |-> 5, max_loc_added |-> 160,
     max_loc_deleted |-> 80, max_patch_size_bytes |-> 20000]

DefaultPaths ==
    [forbidden |-> <<<<"infra/", "**">>, <<"secrets/", "**">>>>, allowed |-> <<>>]

DefaultMarkers == [require_begin_end |-> TRUE, begin |-> BEGIN, end |-> END]

DefaultBinaries ==
    [allow_binary_changes |-> FALSE,
     forbidden_extensions |-> <<".png", ".jpg", ".pdf", ".exe", ".dll", ".so">>]

DefaultCommitGate ==
    [require_file_checker_ok |-> TRUE,
     module_status_allow |-> <<"ok", "partial_ok">>,
     max_partial_ok_allowed |-> 2]

\* SelfDevPolicy()
SelfDevPolicy ==
    [mode |-> "enforce",
     require_clone |-> TRUE,
     limits |-> DefaultLimits,
     paths |-> DefaultPaths,
     protected_files |-> <<<<"core/types.py">>, <<".github/workflows/", "**">>>>,
     markers |-> DefaultMarkers,
     binaries |-> DefaultBinaries,
     commit_gate |-> DefaultCommitGate]

\* 0) clone / branch
BranchViolations(policy, branch_name) ==
    IF /\ policy.require_clone
       /\ branch_name # <<>>
       /\ ~startswith(branch_name, SelfBranchPrefix)
    THEN <<<<"branch", branch_name>>>>
    ELSE <<>>

\* a limit that is already exceeded when it is reached
OverOrEqual(name, value, limit) ==
    IF value >= limit THEN <<<<name, <<value, limit>>>>>> ELSE <<>>

\* one `if metric > limit: v.append(...)`
Over(name, value, limit) ==
    IF value > limit THEN <<<<name, <<value, limit>>>>>> ELSE <<>>

\* 1) blast radius
LimitViolations(limits, diff) ==
    Over("files_changed", diff.files_changed, limits.max_files_changed)
    \o Over("loc_added", diff.loc_added, limits.max_loc_added)
    \o Over("loc_deleted", diff.loc_deleted, limits.max_loc_deleted)
    \o Over("patch_size_bytes", diff.patch_size_bytes, limits.max_patch_size_bytes)

\* 2) the whitelist loop
RECURSIVE WhitelistLoop(_, _)
WhitelistLoop(allowed, paths) ==
    IF paths = <<>> THEN <<>>
    ELSE (IF AnyMatch(Head(paths), allowed) THEN <<>>
          ELSE <<<<"whitelist", Head(paths)>>>>)
         \o WhitelistLoop(allowed, Tail(paths))

WhitelistViolations(allowed, paths) ==
    IF allowed # <<>> THEN WhitelistLoop(allowed, paths) ELSE <<>>

\* 2) the forbidden / protected loop
RECURSIVE PathViolations(_, _, _)
PathViolations(forbidden, protected_files, paths) ==
    IF paths = <<>> THEN <<>>
    ELSE (IF AnyMatch(Head(paths), forbidden)
          THEN <<<<"forbidden", Head(paths)>>>> ELSE <<>>)
         \o (IF AnyMatch(Head(paths), protected_files)
             THEN <<<<"protected", Head(paths)>>>> ELSE <<>>)
         \o PathViolations(forbidden, protected_files, Tail(paths))

\* 3) binary changes and forbidden extensions
BinaryViolations(binaries, diff) ==
    IF diff.has_binary /\ ~binaries.allow_binary_changes
    THEN <<<<"binary", <<>>>>>> ELSE <<>>

RECURSIVE ExtensionsOf(_, _)
ExtensionsOf(p, exts) ==
    IF exts = <<>> THEN <<>>
    ELSE (IF endswith(lowerPath(p), <<Head(exts)>>)
          THEN <<<<"extension", p>>>> ELSE <<>>)
         \o ExtensionsOf(p, Tail(exts))

RECURSIVE ExtensionViolations(_, _)
ExtensionViolations(exts, paths) ==
    IF paths = <<>> THEN <<>>
    ELSE ExtensionsOf(Head(paths), exts) \o ExtensionViolations(exts, Tail(paths))

\* 4) sentinels in the generated code
MarkerViolations(markers, code) ==
    IF /\ markers.require_begin_end
       /\ (~contains(code, markers.begin) \/ ~contains(code, markers.end))
    THEN <<<<"markers", <<>>>>>> ELSE <<>>

InSeq(x, s) == \E i \in 1..Len(s) : s[i] = x

\* 5) minimal acceptance gates
GateViolations(gate, fc_status, status_global, partial_ok_count_so_far) ==
    (IF gate.require_file_checker_ok /\ fc_status # "ok"
     THEN <<<<"file_checker", <<>>>>>> ELSE <<>>)
    \o (IF status_global # ""
           /\ ~InSeq(status_global, [i \in 1..Len(gate.module_status_allow) |->
                                        lower(gate.module_status_allow[i])])
        THEN <<<<"module_status", <<status_global>>>>>> ELSE <<>>)
    \o (IF status_global = "partial_ok"
           /\ partial_ok_count_so_far >= gate.max_partial_ok_allowed
        THEN <<<<"partial_ok_quota", <<partial_ok_count_so_far>>>>>> ELSE <<>>)

\* `diff.paths or []`: an unset list is the empty list
PathsOf(diff) == diff.paths

\* the list v of evaluate_patch
Violations(policy, pb, diff, branch_name, partial_ok_count_so_far) ==
    BranchViolations(policy, branch_name)
    \o LimitViolations(policy.limits, diff)
    \o WhitelistViolations(policy.paths.allowed, PathsOf(diff))
    \o PathViolations(policy.paths.forbidden, policy.protected_files, PathsOf(diff))
    \o BinaryViolations(policy.binaries, diff)
    \o ExtensionViolations(policy.binaries.forbidden_extensions, PathsOf(diff))
    \o MarkerViolations(policy.markers, pb.code)
    \o GateViolations(policy.commit_gate,
                      lower(OrEmpty(pb.status_agent_file_checker)),
                      lower(OrEmpty(pb.global_status)),
                      partial_ok_count_so_far)

\* `(self.mode or "enforce").lower()`
ModeOf(policy) == IF Truthy(policy.mode) THEN lower(policy.mode) ELSE "enforce"

\* an evaluation that blocks under warn as it does under enforce
OkOnlyWhenOff(mode, v) == Len(v) = 0 \/ mode = "off"

\* `ok = len(v) == 0 or mode == "off" or mode == "warn"`
PolicyOk(mode, v) == Len(v) = 0 \/ mode = "off" \/ mode = "warn"

Evaluated(mode, v) == [ok |-> PolicyOk(mode, v), violations |-> v]

evaluate_patch(policy, pb, diff, branch_name, partial_ok_count_so_far) ==
    Evaluated(ModeOf(policy),
              Violations(policy, pb, diff, branch_name, partial_ok_count_so_far))

---------------------------------------------------------------------------
(* agents/agent_file_checker.py, agents/agent_module_checker.py,           *)
(* core/verification_pipeline.py, core/orchestrator.py                     *)

DefToken == <<"def ">>
PY == <<".py">>

\* PatchBlock with the meta fields the checkers and the orchestrator touch
PatchBlock(code, file, global_status, next_action, error_category) ==
    [code |-> code, file |-> file,
     global_status |-> global_status, next_action |-> next_action,
     error_category |-> error_category, error_trace |-> None,
     status_agent_file_checker |-> None, status_agent_module_checker |-> None,
     commit_sha |-> None]

\* the checklist lines of the prompt name both sentinels and the .py target
Checklist == BEGIN \o <<SP>> \o END \o <<LF>> \o PY \o <<LF>>

UnknownFile == <<"unknown">> \o PY

\* `pb.meta.file or "unknown.py"`
FileOf(pb) == IF pb.file = <<>> THEN UnknownFile ELSE pb.file

build_filecheck_prompt(pb) == Checklist \o FileOf(pb) \o <<LF>> \o pb.code

\* the STATUS line of the offline answer
call_llm(prompt) ==
    IF contains(prompt, BEGIN) /\ contains(prompt, END) /\ contains(prompt, PY)
    THEN "ok" ELSE "rejected"

FileChecked(pb, status) ==
    IF status = "ok"
    THEN [pb EXCEPT !.status_agent_file_checker = "ok"]
    ELSE [pb EXCEPT !.status_agent_file_checker = "rejected",
                    !.error_trace = "rejected by FileChecker"]

check_file(pb) == FileChecked(pb, call_llm(build_filecheck_prompt(pb)))

\* (status, next_action) of the offline module decision
offline_module_decision(fc_status, code) ==
    IF fc_status = "rejected" THEN <<"rejected", "retry">>
    ELSE IF contains(code, DefToken)
    THEN (IF ~contains(code, BEGIN) \/ ~contains(code, END)
          THEN <<"partial_ok", "retry">>
          ELSE <<"ok", "accept">>)
    ELSE <<"partial_ok", "retry">>

ModuleChecked(pb, d) ==
    [pb EXCEPT !.global_status = d[1],
               !.next_action = d[2],
               !.status_agent_module_checker =
                   IF d[1] \in {"ok", "partial_ok"} THEN "ok" ELSE "rejected"]

check_module(pb) ==
    ModuleChecked(pb, offline_module_decision(
                          lower(OrEmpty(pb.status_agent_file_checker)), pb.code))

run_local_checkers(pb) == check_module(check_file(pb))

\* an optional argument: <<>> when it is not supplied, <<value>> when it is
Supplied(x) == <<x>>

ArchiveDir == ".arch_runs/_last"
BadDir == "/read-only"

\* what the archiver writes when archive_dir is set
Archived(in, entries) == IF in.archive_dir = None THEN <<>> ELSE entries

RunResult(pb, decision, calls, archive) ==
    [returned |-> TRUE, pb |-> pb, decision |-> decision,
     calls |-> calls, archive |-> archive]

\* a write into an archive directory that cannot be written raises
RunRaised(pb) ==
    [returned |-> FALSE, pb |-> pb, decision |-> NoDecision,
     calls |-> <<>>, archive |-> <<>>]

\* apply_and_commit may inject meta.commit_sha
Injected(pb, sha) == IF sha = None THEN pb ELSE [pb EXCEPT !.commit_sha = sha]

\* 6) the post-commit archive when meta.commit_sha is set
Committed(in, pb, decision, archive) ==
    RunResult(pb, decision, <<"apply_and_commit">>,
              archive \o (IF Truthy(pb.commit_sha)
                          THEN Archived(in, <<<<"patch_post_commit", <<>>>>>>)
                          ELSE <<>>))

\* a dispatch that hands a patch to regenerate on to the commit
DispatchCommitsRetry(in, pb, decision, archive) ==
    IF decision.action \in {"apply", "retry"}
    THEN Committed(in, Injected(pb, in.adapter_commit_sha), decision, archive)
    ELSE RunResult(pb, decision, <<"rollback_and_log">>, archive)

\* 3) dispatch on the decision
Dispatch(in, pb, decision, archive) ==
    IF decision.action = "apply"
    THEN Committed(in, Injected(pb, in.adapter_commit_sha), decision, archive)
    ELSE IF decision.action = "retry"
    THEN RunResult(pb, decision, <<"regenerate_with_acw">>, archive)
    ELSE RunResult(pb, decision, <<"rollback_and_log">>, archive)

\* a blocked patch that is rolled back and then dispatched all the same
BlockedFallsThrough(in, pb, decision, archive, violations, action) ==
    RunResult(pb, decision, <<"rollback_and_log", "apply_and_commit">>,
              archive \o Archived(in, <<<<"policy BLOCKED", violations>>>>))

\* a blocked patch whose returned decision names the action that was taken
BlockedReportsFinal(in, pb, decision, archive, violations, action) ==
    IF action = "rollback"
    THEN RunResult(pb, [decision EXCEPT !.action = "rollback"], <<"rollback_and_log">>,
                   archive \o Archived(in, <<<<"policy BLOCKED", violations>>>>))
    ELSE RunResult(pb, [decision EXCEPT !.action = "retry"], <<"regenerate_with_acw">>,
                   archive \o Archived(in, <<<<"policy RETRY", violations>>>>))

\* the `if not ok:` branch: the violation is re-mapped with the raw policy.mode
Blocked(in, pb, decision, archive, violations, action) ==
    IF action = "rollback"
    THEN RunResult(pb, decision, <<"rollback_and_log">>,
                   archive \o Archived(in, <<<<"policy BLOCKED", violations>>>>))
    ELSE IF action = "retry"
    THEN RunResult(pb, decision, <<"regenerate_with_acw">>,
                   archive \o Archived(in, <<<<"policy RETRY", violations>>>>))
    ELSE Dispatch(in, pb, decision, archive)

\* a gate that hands a blocked patch on to the dispatch
GateLogsOnly(in, pb, decision, archive, ev) ==
    Dispatch(in, pb, decision,
             archive \o Archived(in, <<<<"policy WARN", ev.violations>>>>))

\* 2) the policy gate once the patch has been evaluated
Gate(in, pb, decision, archive, ev) ==
    IF ~ev.ok
    THEN Blocked(in, pb, decision, archive, ev.violations,
                 map_error_to_next_action(POLICY_VIOLATION, in.policy[1].mode))
    ELSE Dispatch(in, pb, decision, archive)

AfterRoute(in, pb, decision, archive) ==
    IF decision.action = "apply" /\ in.policy # <<>> /\ in.diff_stats # <<>>
    THEN Gate(in, pb, decision, archive,
              evaluate_patch(in.policy[1], pb, in.diff_stats[1], in.branch_name,
                             in.partial_ok_count_so_far))
    ELSE Dispatch(in, pb, decision, archive)

\* (B) the decision and the annotated patch are archived
AfterChecks(in, pb, decision) ==
    AfterRoute(in, pb, decision,
               Archived(in, <<<<"patch_before", <<>>>>, <<"received", <<>>>>,
                              <<"decision", <<decision.action>>>>,
                              <<"patch_after", <<>>>>>>))

\* 1) verify_and_route
VerifyAndRoute(in, pb) == AfterChecks(in, pb, route_after_checks(pb))

run_patch_local(in, pb) ==
    IF in.archive_dir = BadDir THEN RunRaised(pb)
    ELSE VerifyAndRoute(in, run_local_checkers(pb))

---------------------------------------------------------------------------
(* The patches, policies and diffs the policy and the orchestrator see *)

Unset == <<>>

\* policies as loaded: the defaults, a whitelist, and every gate switched off
WhitelistPolicy == [SelfDevPolicy EXCEPT !.paths.allowed = <<<<"src/", "**">>>>]

LaxPolicy ==
    [SelfDevPolicy EXCEPT !.require_clone = FALSE,
                          !.binaries.allow_binary_changes = TRUE,
                          !.markers.require_begin_end = FALSE,
                          !.commit_gate.require_file_checker_ok = FALSE]

PolicyConfigs == {SelfDevPolicy, WhitelistPolicy, LaxPolicy}

SrcPy == <<"src/", "a", ".py">>
SrcPng == <<"src/", "logo", ".png">>
InfraPng == <<"infra/", "logo", ".PNG">>
TypesPy == <<"core/types.py">>

PathLists == {Unset, <<SrcPy>>, <<InfraPng, TypesPy>>, <<SrcPy, SrcPng>>}

\* a diff whose every metric sits exactly on its limit
AtLimits ==
    [files_changed |-> DefaultLimits.max_files_changed,
     loc_added |-> DefaultLimits.max_loc_added,
     loc_deleted |-> DefaultLimits.max_loc_deleted,
     patch_size_bytes |-> DefaultLimits.max_patch_size_bytes,
     paths |-> Unset, has_binary |-> FALSE]

OneOver == [AtLimits EXCEPT !.files_changed = @ + 1]

AllOver ==
    [AtLimits EXCEPT !.files_changed = @ + 1, !.loc_added = @ + 1,
                     !.loc_deleted = @ + 1, !.patch_size_bytes = @ + 1]

DiffStats ==
    {[d EXCEPT !.paths = p, !.has_binary = hb] :
        d \in {AtLimits, AllOver}, p \in PathLists, hb \in BOOLEAN}

Branches == {Unset, <<"archcode-self/", "feat">>, <<"main">>}

PartialCounts ==
    {DefaultCommitGate.max_partial_ok_allowed - 1,
     DefaultCommitGate.max_partial_ok_allowed}

Bare == <<BEGIN, END>>

\* an enveloped function, an enveloped expression, a function without sentinels
CodeDef == Envelope(Bare, <<DefToken \o <<"x">>>>)
CodeNoDef == Envelope(Bare, <<<<"x">>>>)
CodeNoMeta == DefToken \o <<"x">>
CodeNoEnd == BEGIN \o <<LF>> \o DefToken \o <<"x">>

FilePy == <<"a">> \o PY
FileTxt == <<"a", ".txt">>

\* envelopes as the policy sees them, after the checkers have annotated them
CheckedPatches ==
    {[PatchBlock(code, FilePy, gs, None, None)
         EXCEPT !.status_agent_file_checker = fc] :
        code \in {CodeDef, CodeNoMeta},
        gs \in {None, "ok", "partial_ok", "rejected"},
        fc \in {"ok", "rejected"}}

PolicyInputs ==
    [policy : PolicyConfigs, pb : CheckedPatches, diff : DiffStats,
     branch_name : Branches, partial_ok_count_so_far : PartialCounts]

PlStart ==
    /\ plIn \in PolicyInputs
    /\ plEvals = {}

\* the policy is not part of the run
PlIdle ==
    /\ plIn = [policy |-> SelfDevPolicy,
               pb |-> PatchBlock(Unset, Unset, None, None, None),
               diff |-> AtLimits, branch_name |-> Unset,
               partial_ok_count_so_far |-> 0]
    /\ plEvals = {}

\* policy.evaluate_patch(pb, diff, branch_name=..., partial_ok_count_so_far=...)
\* with the policy's mode set to m
Evaluate ==
    /\ Cardinality(plEvals) < MaxEvals
    /\ \E m \in PolicyModeInputs :
          /\ \A e \in plEvals : e.mode # m
          /\ \E r \in {evaluate_patch([plIn.policy EXCEPT !.mode = m], plIn.pb,
                                      plIn.diff, plIn.branch_name,
                                      plIn.partial_ok_count_so_far)} :
                plEvals' = plEvals \cup
                    {[mode |-> m, ok |-> r.ok, violations |-> r.violations]}
    /\ UNCHANGED <<plIn, fsVars, rtVars, runVars, gmVars>>

\* the four metrics of the blast radius, each with its limit
Metrics == {"files_changed", "loc_added", "loc_deleted", "patch_size_bytes"}

LimitOf(limits) ==
    [files_changed |-> limits.max_files_changed,
     loc_added |-> limits.max_loc_added,
     loc_deleted |-> limits.max_loc_deleted,
     patch_size_bytes |-> limits.max_patch_size_bytes]

\* a policy file that tightens every limit
TightPolicy ==
    [SelfDevPolicy EXCEPT !.limits = [max_files_changed |-> 1, max_loc_added |-> 10,
                                      max_loc_deleted |-> 1,
                                      max_patch_size_bytes |-> 512]]

LimitPolicies == {SelfDevPolicy, TightPolicy}

\* each metric one below, on, or one above its limit
Offsets == [Metrics -> {-1, 0, 1}]

DiffAround(limits, off) ==
    [files_changed |-> limits.max_files_changed + off["files_changed"],
     loc_added |-> limits.max_loc_added + off["loc_added"],
     loc_deleted |-> limits.max_loc_deleted + off["loc_deleted"],
     patch_size_bytes |-> limits.max_patch_size_bytes + off["patch_size_bytes"],
     paths |-> Unset, has_binary |-> FALSE]

\* a patch that passes every other rule, and one the file checker rejected
LimitPatches ==
    {[PatchBlock(CodeDef, FilePy, "ok", None, None)
         EXCEPT !.status_agent_file_checker = fc] : fc \in {"ok", "rejected"}}

LimStart ==
    /\ \E policy \in LimitPolicies, off \in Offsets, pb \in LimitPatches :
          plIn = [policy |-> policy, pb |-> pb,
                  diff |-> DiffAround(policy.limits, off),
                  branch_name |-> Unset, partial_ok_count_so_far |-> 0]
    /\ plEvals = {}

\* envelopes as the generator hands them to the orchestrator; a stale
\* (global_status, next_action) pair is overwritten by the module checker
RunPatches ==
    {PatchBlock(code, file, st[1], st[2], ec) :
        code \in {CodeDef, CodeNoDef, CodeNoMeta, CodeNoEnd},
        file \in {FilePy, FileTxt},
        st \in {<<None, None>>, <<"rejected", "rollback">>},
        ec \in {None, SYNTAX, FATAL}}

RunPolicies ==
    {Unset} \cup {Supplied([SelfDevPolicy EXCEPT !.mode = m]) : m \in PolicyModeInputs}

RunDiffs ==
    {Unset} \cup {Supplied(d) :
                     d \in {AtLimits, OneOver, [AtLimits EXCEPT !.has_binary = TRUE]}}

RunInputs ==
    [pb : RunPatches, policy : RunPolicies, diff_stats : RunDiffs,
     branch_name : {Unset, <<"main">>},
     partial_ok_count_so_far : {0},
     archive_dir : {None, ArchiveDir, BadDir},
     adapter_commit_sha : {None, "c0ffee"}]

RunStart ==
    /\ runIn \in RunInputs
    /\ runOut = <<>>

\* the orchestrator is not part of the run
RunIdle ==
    /\ runIn = [pb |-> PatchBlock(Unset, Unset, None, None, None),
                policy |-> Unset, diff_stats |-> Unset, branch_name |-> Unset,
                partial_ok_count_so_far |-> 0, archive_dir |-> None,
                adapter_commit_sha |-> None]
    /\ runOut = <<>>

\* the envelope object: as handed in, or as annotated by the previous run
CurrentPb == IF runOut = <<>> THEN runIn.pb ELSE runOut[Len(runOut)].pb

\* run_patch_local(pb, adapters, policy=..., diff_stats=..., ...)
Run ==
    /\ Len(runOut) < MaxRuns
    /\ runOut' = Append(runOut, run_patch_local(runIn, CurrentPb))
    /\ UNCHANGED <<runIn, fsVars, rtVars, plVars, gmVars>>

---------------------------------------------------------------------------
(* tests/test_e2e_smoke_commit.py: the orchestrator on the git adapters of *)
(* the smoke test, which write meta.file and commit it                     *)

\* the commits of the adapter so far
Commits(calls) == {i \in 1..Len(calls) : ~calls[i].raised}

LastOf(S) == CHOOSE i \in S : \A j \in S : j <= i

\* the copy of the target in HEAD: none in the repository of _init_repo,
\* else the text of the adapter's last commit
HeadCopy(calls) ==
    IF Commits(calls) = {} THEN <<>> ELSE <<calls[LastOf(Commits(calls))].code>>

\* an adapter whose commit never fails, as `git commit --allow-empty` would
CommitsAllowEmpty(pb, file, head) ==
    IF pb.file = <<>>
    THEN [file |-> file, raised |-> TRUE]
    ELSE [file |-> WrittenFile(pb.code), raised |-> FALSE]

\* RealGitAdapters._apply_and_commit: ValueError without meta.file; else the
\* text is written over the file, staged and committed, and `git commit`
\* fails when the staged text is the one HEAD already holds
RealApplyAndCommit(pb, file, head) ==
    IF pb.file = <<>>
    THEN [file |-> file, raised |-> TRUE]
    ELSE [file |-> WrittenFile(pb.code), raised |-> head = <<pb.code>>]

\* the exception of the adapter leaves run_patch_local: no Decision is
\* returned, no commit_sha was injected, no post-commit archive is written
AdapterRaised(r, pb) ==
    [returned |-> FALSE, pb |-> [r.pb EXCEPT !.commit_sha = pb.commit_sha],
     decision |-> NoDecision, calls |-> r.calls,
     archive |-> SelectSeq(r.archive, LAMBDA e : e[1] # "patch_post_commit")]

AdapterCall(pb, pre, a) ==
    [code |-> pb.code, pre |-> pre, post |-> a.file, raised |-> a.raised,
     action |-> "commit", written |-> 0]

SmokePatches == RunPatches \cup {PatchBlock(CodeDef, <<>>, None, None, None)}

SmokeInputs ==
    [pb : SmokePatches,
     policy : {Unset, Supplied(SelfDevPolicy)},
     diff_stats : {Unset, Supplied(OneOver)},
     branch_name : {Unset},
     partial_ok_count_so_far : {0},
     archive_dir : {None, ArchiveDir, BadDir},
     adapter_commit_sha : {"c0ffee"}]

\* the work tree holds no file at the target, or an untracked one
SmokeStart ==
    /\ runIn \in SmokeInputs
    /\ runOut = <<>>
    /\ fsCode = runIn.pb.code
    /\ fsFile \in {NoFile, FileWith(<<"y", LF>>)}
    /\ fsHistory = <<>>
    /\ fsCalls = <<>>
    /\ gitOut = NoGit

\* run_patch_local(pb, RealGitAdapters(repo)): the dispatch to apply_and_commit
\* runs the adapter on the work tree; the two other adapters leave the target
\* alone
RunSmoke ==
    /\ Len(runOut) < MaxSmokeRuns
    /\ \E r \in {run_patch_local(runIn, CurrentPb)} :
          IF r.returned /\ InSeq("apply_and_commit", r.calls)
          THEN \E a \in {RealApplyAndCommit(CurrentPb, fsFile, HeadCopy(fsCalls))} :
                  /\ fsFile' = a.file
                  /\ fsCalls' = Append(fsCalls, AdapterCall(CurrentPb, fsFile, a))
                  /\ runOut' = Append(runOut, IF a.raised
                                              THEN AdapterRaised(r, CurrentPb)
                                              ELSE r)
          ELSE /\ runOut' = Append(runOut, r)
               /\ UNCHANGED <<fsFile, fsCalls>>
    /\ UNCHANGED <<runIn, fsCode, fsHistory, gitOut, rtVars, plVars, gmVars>>

---------------------------------------------------------------------------
(* scripts/green_tag.py, scripts/rollback_to_last_green.py *)
(* Commits are numbered in the order they are made; a green tag            *)
(* green-<date>-<shortsha> is the pair of its date and its commit.         *)

GreenTag(date, sha) == [date |-> date, commit |-> sha]

\* git rev-parse HEAD
git_sha(repo) == IF repo.detached THEN repo.head_at ELSE repo.main

\* git status --porcelain is empty: no local modification, and the archive
\* directory is either ignored or holds no file
git_working_tree_clean(repo) ==
    /\ ~repo.dirty
    /\ repo.ignored \/ (repo.archives = {} /\ repo.metadata = {})

\* git tag -l <tag> prints the tag
TagExists(repo, tag) == \E i \in 1..Len(repo.tags) : repo.tags[i] = tag

\* the commits reachable from c
RECURSIVE Ancestors(_, _)
Ancestors(repo, c) ==
    {c} \cup UNION {Ancestors(repo, p) : p \in repo.parents[c]}

Outcome(repo, exit, steps, planned) ==
    [repo |-> repo, exit |-> exit, steps |-> steps, planned |-> planned]

\* git tag -a, then git push origin <tag>
Tagged(repo, tag) == [repo EXCEPT !.tags = Append(@, tag)]

PushedTag(repo, tag) == [repo EXCEPT !.origin_tags = @ \cup {tag}]

tag_and_push(repo, tag, push_ok, steps) ==
    IF TagExists(repo, tag) THEN Outcome(repo, 1, steps, <<>>)
    ELSE IF push_ok
    THEN Outcome(PushedTag(Tagged(repo, tag), tag), 0,
                 steps \o <<"tag", "push_tag">>, <<>>)
    ELSE Outcome(Tagged(repo, tag), 1, steps \o <<"tag">>, <<>>)

WithMetadata(repo, sha) == [repo EXCEPT !.metadata = @ \cup {sha}]

WithArchive(repo, sha) == [repo EXCEPT !.archives = @ \cup {sha}]

WithPartialArchive(repo, sha) ==
    [repo EXCEPT !.archives = @ \cup {sha}, !.partial = @ \cup {sha}]

\* a script that tags first and archives afterwards
TagThenArchive(repo, sha, io, push_ok) ==
    IF sha \in repo.archives THEN Outcome(repo, 1, <<>>, <<>>)
    ELSE IF TagExists(repo, GreenTag(repo.today, sha)) THEN Outcome(repo, 1, <<>>, <<>>)
    ELSE IF io = "fail_open"
    THEN Outcome(WithMetadata(Tagged(repo, GreenTag(repo.today, sha)), sha), 1,
                 <<"tag", "write_metadata">>, <<>>)
    ELSE Outcome(WithArchive(WithMetadata(Tagged(repo, GreenTag(repo.today, sha)), sha), sha),
                 0, <<"tag", "write_metadata", "write_archive">>, <<>>)

\* create_archive, then tag_and_push; io is what the archive write meets, or
\* an interruption of the script once the archive is written
create_archive_then_tag(repo, sha, io, push_ok) ==
    IF sha \in repo.archives THEN Outcome(repo, 1, <<>>, <<>>)
    ELSE IF io = "fail_open"
    THEN Outcome(WithMetadata(repo, sha), 1, <<"write_metadata">>, <<>>)
    ELSE IF io = "fail_add"
    THEN Outcome(WithPartialArchive(WithMetadata(repo, sha), sha), 1,
                 <<"write_metadata", "write_archive">>, <<>>)
    ELSE IF io = "interrupted"
    THEN Outcome(WithArchive(WithMetadata(repo, sha), sha), 130,
                 <<"write_metadata", "write_archive">>, <<>>)
    ELSE tag_and_push(WithArchive(WithMetadata(repo, sha), sha),
                      GreenTag(repo.today, sha), push_ok,
                      <<"write_metadata", "write_archive">>)

\* green_tag.main()
tag_green(repo, io, push_ok) == create_archive_then_tag(repo, git_sha(repo), io, push_ok)

\* git checkout <sha> / git checkout main
CheckedOut(repo, sha) == [repo EXCEPT !.detached = TRUE, !.head_at = sha]

OnMain(repo) == [repo EXCEPT !.detached = FALSE, !.head_at = repo.main]

\* tar.extractall into the repository root
Extracted(repo, sha) == [repo EXCEPT !.restored = sha]

NewCommit(repo, parents) ==
    [repo EXCEPT !.parents = Append(@, parents),
                 !.main = Len(repo.parents) + 1,
                 !.head_at = Len(repo.parents) + 1]

\* git merge --no-ff <sha>: nothing to do when sha is already in main
Merged(repo, sha) ==
    IF sha \in Ancestors(repo, repo.main) THEN repo
    ELSE NewCommit(repo, {repo.main, sha})

\* git reset --hard <sha>
Reset(repo, sha) == [repo EXCEPT !.main = sha, !.head_at = sha, !.dirty = FALSE]

PushedMain(repo) == [repo EXCEPT !.origin_main = repo.main]

Planned(strategy) ==
    <<"checkout", "extract", "checkout_main">>
    \o (IF strategy = "merge" THEN <<"merge", "push">> ELSE <<"reset", "push_force">>)

\* the last step: push, or force-push with lease
Pushing(repo, push_ok, steps) ==
    IF push_ok THEN Outcome(PushedMain(repo), 0, steps, <<>>)
    ELSE Outcome(repo, 1, SubSeq(steps, 1, Len(steps) - 1), <<>>)

\* steps 1) to 3) of the rollback
Execute(repo, sha, strategy, push_ok) ==
    IF sha \in repo.partial
    THEN Outcome(CheckedOut(repo, sha), 1, <<"checkout">>, <<>>)
    ELSE IF strategy = "merge"
    THEN Pushing(Merged(OnMain(Extracted(CheckedOut(repo, sha), sha)), sha),
                 push_ok, Planned(strategy))
    ELSE Pushing(Reset(OnMain(Extracted(CheckedOut(repo, sha), sha)), sha),
                 push_ok, Planned(strategy))

\* a rollback that goes on without the archive
TargetedAnyway(repo, sha, strategy, dry_run, push_ok) ==
    IF dry_run THEN Outcome(repo, 0, <<>>, Planned(strategy))
    ELSE Execute(repo, sha, strategy, push_ok)

\* a dry run whose archive extraction is carried out all the same
TargetedDryExtracts(repo, sha, strategy, dry_run, push_ok) ==
    IF sha \notin repo.archives THEN Outcome(repo, 3, <<>>, <<>>)
    ELSE IF dry_run
    THEN Outcome(Extracted(repo, sha), 0, <<"extract">>, Planned(strategy))
    ELSE Execute(repo, sha, strategy, push_ok)

\* the target is resolved: the archive must be there
Targeted(repo, sha, strategy, dry_run, push_ok) ==
    IF sha \notin repo.archives THEN Outcome(repo, 3, <<>>, <<>>)
    ELSE IF dry_run THEN Outcome(repo, 0, <<>>, Planned(strategy))
    ELSE Execute(repo, sha, strategy, push_ok)

\* find_last_green_target: the most recently created green tag
find_last_green_target(repo) == repo.tags[Len(repo.tags)].commit

\* rollback_to_last_green.main(argv)
rollback_to_last_green(repo, strategy, dry_run, no_clean_check, push_ok) ==
    IF ~no_clean_check /\ ~git_working_tree_clean(repo)
    THEN Outcome(repo, 2, <<>>, <<>>)
    ELSE IF repo.tags = <<>> THEN Outcome(repo, 1, <<>>, <<>>)
    ELSE Targeted(repo, find_last_green_target(repo), strategy, dry_run, push_ok)

---------------------------------------------------------------------------
(* The repository the two scripts run in *)

FreshRepo(ignored) ==
    [parents |-> <<{}>>, main |-> 1, detached |-> FALSE, head_at |-> 1,
     dirty |-> FALSE, ignored |-> ignored,
     tags |-> <<>>, archives |-> {}, partial |-> {}, metadata |-> {},
     restored |-> 0, origin_main |-> 1, origin_tags |-> {}, today |-> 1]

Strategies == {"merge", "reset"}
ArchiveWrites == {"ok", "fail_open", "fail_add", "interrupted"}

NoArgs == [strategy |-> "-", dry_run |-> FALSE, no_clean_check |-> FALSE]

\* what held before the last script ran
Before(repo) ==
    [clean |-> git_working_tree_clean(repo),
     has_tag |-> repo.tags # <<>>,
     target_archived |-> repo.tags # <<>>
                          /\ find_last_green_target(repo) \in repo.archives,
     head_archived |-> git_sha(repo) \in repo.archives,
     head_tagged |-> \E i \in 1..Len(repo.tags) :
                         repo.tags[i].commit = git_sha(repo),
     head_tagged_today |-> TagExists(repo, GreenTag(repo.today, git_sha(repo))),
     modified |-> repo.dirty,
     on_main |-> ~repo.detached]

\* the commit the latest green tag points at, 0 when there is no green tag
TargetOf(repo) == IF repo.tags = <<>> THEN 0 ELSE find_last_green_target(repo)

\* what holds once the script has run
After(repo) ==
    [on_main |-> ~repo.detached,
     at_target |-> repo.main = TargetOf(repo) /\ git_sha(repo) = TargetOf(repo),
     modified |-> repo.dirty,
     restored_target |-> repo.restored = TargetOf(repo)]

\* the script runs right after a successful tag-green: nothing happened in
\* the repository in between
AfterTag(last) == last.op = "tag_green" /\ last.exit = 0 /\ last.quiet

\* the script runs right after a tag-green that started its work and did
\* not finish it
AfterFailedTag(last) ==
    last.op = "tag_green" /\ last.exit # 0 /\ last.steps # <<>> /\ last.quiet

Ran(n, op, args, before, r, repo, last) ==
    [n |-> n, op |-> op, args |-> args, before |-> before, exit |-> r.exit,
     steps |-> r.steps, planned |-> r.planned, unchanged |-> r.repo = repo,
     after_tag |-> AfterTag(last), rerun |-> AfterFailedTag(last),
     after |-> After(r.repo), quiet |-> TRUE]

NoScript == [n |-> 0, op |-> "none", args |-> NoArgs,
             before |-> Before(FreshRepo(FALSE)),
             exit |-> 0, steps |-> <<>>, planned |-> <<>>, unchanged |-> TRUE,
             after_tag |-> FALSE, rerun |-> FALSE,
             after |-> After(FreshRepo(FALSE)), quiet |-> FALSE]

\* something happened in the repository since the last script ran
Disturbed(last) == [last EXCEPT !.quiet = FALSE]

GmStart ==
    /\ gmRepo \in {FreshRepo(ig) : ig \in BOOLEAN}
    /\ gmLast = NoScript

\* the scripts are not part of the run
GmIdle ==
    /\ gmRepo = FreshRepo(FALSE)
    /\ gmLast = NoScript

\* a developer edits tracked files
Edit ==
    /\ ~gmRepo.dirty
    /\ gmRepo' = [gmRepo EXCEPT !.dirty = TRUE]
    /\ gmLast' = Disturbed(gmLast)
    /\ UNCHANGED <<fsVars, rtVars, plVars, runVars>>

\* the edits are committed on main
Commit ==
    /\ gmRepo.dirty
    /\ ~gmRepo.detached
    /\ Len(gmRepo.parents) < MaxCommits
    /\ gmRepo' = [NewCommit(gmRepo, {gmRepo.main}) EXCEPT !.dirty = FALSE]
    /\ gmLast' = Disturbed(gmLast)
    /\ UNCHANGED <<fsVars, rtVars, plVars, runVars>>

\* the archive directory is lost (a fresh clone, git clean -x)
LoseArchives ==
    /\ gmRepo.archives # {} \/ gmRepo.metadata # {}
    /\ gmRepo' = [gmRepo EXCEPT !.archives = {}, !.partial = {}, !.metadata = {}]
    /\ gmLast' = Disturbed(gmLast)
    /\ UNCHANGED <<fsVars, rtVars, plVars, runVars>>

NextDay ==
    /\ gmRepo.today < MaxDay
    /\ gmRepo' = [gmRepo EXCEPT !.today = @ + 1]
    /\ gmLast' = Disturbed(gmLast)
    /\ UNCHANGED <<fsVars, rtVars, plVars, runVars>>

\* python scripts/green_tag.py
TagGreen ==
    /\ gmLast.n < MaxScripts
    /\ \E io \in ArchiveWrites, push_ok \in BOOLEAN :
          \E r \in {tag_green(gmRepo, io, push_ok)} :
             /\ gmRepo' = r.repo
             /\ gmLast' = Ran(gmLast.n + 1, "tag_green", NoArgs,
                              Before(gmRepo), r, gmRepo, gmLast)
    /\ UNCHANGED <<fsVars, rtVars, plVars, runVars>>

\* python scripts/rollback_to_last_green.py [--strategy s] [--dry-run]
\* [--no-clean-check]
Rollback ==
    /\ gmLast.n < MaxScripts
    /\ \E strategy \in Strategies, dry_run \in BOOLEAN,
          no_clean_check \in BOOLEAN, push_ok \in BOOLEAN :
          \E r \in {rollback_to_last_green(gmRepo, strategy, dry_run,
                                           no_clean_check, push_ok)} :
             /\ gmRepo' = r.repo
             /\ gmLast' = Ran(gmLast.n + 1, "rollback",
                              [strategy |-> strategy, dry_run |-> dry_run,
                               no_clean_check |-> no_clean_check],
                              Before(gmRepo), r, gmRepo, gmLast)
    /\ UNCHANGED <<fsVars, rtVars, plVars, runVars>>

---------------------------------------------------------------------------
(* Specifications *)

FsInit == FsStart /\ RtIdle /\ PlIdle /\ RunIdle /\ GmIdle
FsNext == Apply \/ EditPayload
SpecFs == FsInit /\ [][FsNext]_vars

RtInit == RtStart /\ FsIdle /\ PlIdle /\ RunIdle /\ GmIdle
RtNext == Route \/ MapError
SpecRouter == RtInit /\ [][RtNext]_vars

PlInit == PlStart /\ FsIdle /\ RtIdle /\ RunIdle /\ GmIdle
PlNext == Evaluate
SpecPolicy == PlInit /\ [][PlNext]_vars

LimInit == LimStart /\ FsIdle /\ RtIdle /\ RunIdle /\ GmIdle
SpecLimits == LimInit /\ [][PlNext]_vars

\* one envelope goes through the orchestrator (checkers, router, policy
\* gate, dispatch), the applier and the git adapter, in any order
HistRunStart ==
    /\ runIn = [pb |-> PatchBlock(fsCode, FilePy, None, None, None),
                policy |-> Supplied(SelfDevPolicy), diff_stats |-> Supplied(OneOver),
                branch_name |-> Unset, partial_ok_count_so_far |-> 0,
                archive_dir |-> ArchiveDir, adapter_commit_sha |-> None]
    /\ runOut = <<>>

HistInit == HistStart /\ HistRunStart /\ RtIdle /\ PlIdle /\ GmIdle
HistNext == Apply \/ EditPayload \/ ApplyAndCommit \/ Run
SpecHistory == HistInit /\ [][HistNext]_vars

RunInit == RunStart /\ FsIdle /\ RtIdle /\ PlIdle /\ GmIdle
RunNext == Run
SpecRun == RunInit /\ [][RunNext]_vars

SmokeInit == SmokeStart /\ RtIdle /\ PlIdle /\ GmIdle
SmokeNext == RunSmoke
SpecSmoke == SmokeInit /\ [][SmokeNext]_vars

GmInit == GmStart /\ FsIdle /\ RtIdle /\ PlIdle /\ RunIdle
GmNext == Edit \/ Commit \/ LoseArchives \/ NextDay \/ TagGreen \/ Rollback
SpecGreen == GmInit /\ [][GmNext]_vars

\* tag-green alone: commits are made and days pass between its runs
TagInit == GmInit
TagNext == Edit \/ Commit \/ NextDay \/ TagGreen
SpecTagGreen == TagInit /\ [][TagNext]_vars

---------------------------------------------------------------------------
(* Properties *)

WholeLine(text, ln) == \E i \in 1..Len(splitlines(text)) : splitlines(text)[i] = ln

MarkerModeCall(c) == ~c.raised /\ split_block(c.code).has_markers

\* C1: two calls in a row with the same envelope: the second returns
\* (skip, 0 bytes) and leaves the file as it was.
C1_SecondApplySkips ==
    \A i \in 1..(Len(fsCalls) - 1) :
        (/\ fsCalls[i].code = fsCalls[i + 1].code
         /\ ~fsCalls[i].raised)
        => /\ fsCalls[i].action \in {"insert", "replace", "skip"}
           /\ fsCalls[i + 1].action = "skip"
           /\ fsCalls[i + 1].written = 0
           /\ fsCalls[i + 1].post = fsCalls[i + 1].pre

\* C2: a replace in marker mode on a file that holds the two marker lines
\* leaves both marker lines in the file as whole lines.
MarkerLinesKept(c) ==
    (/\ WholeLine(c.pre.text, split_block(c.code).marker_begin)
     /\ WholeLine(c.pre.text, split_block(c.code).marker_end))
    => (/\ WholeLine(c.post.text, split_block(c.code).marker_begin)
        /\ WholeLine(c.post.text, split_block(c.code).marker_end))

C2_ReplaceKeepsMarkerLines ==
    \A i \in 1..Len(fsCalls) :
        (MarkerModeCall(fsCalls[i]) /\ fsCalls[i].action = "replace")
        => MarkerLinesKept(fsCalls[i])

Routed == rtOut # NoDecision

\* C5: with error_category unset and both status fields enumerated or unset,
\* route returns apply exactly for (ok, accept), rollback exactly when
\* next_action is rollback or global_status is rejected, retry otherwise.
C5_FallbackTable ==
    (/\ Routed
     /\ rtIn.error_category = None
     /\ rtIn.global_status \in GlobalStatuses \cup {None}
     /\ rtIn.next_action \in NextActions \cup {None})
    => /\ (rtOut.action = "apply")
             <=> (rtIn.global_status = "ok" /\ rtIn.next_action = "accept")
       /\ (rtOut.action = "rollback")
             <=> (rtIn.next_action = "rollback" \/ rtIn.global_status = "rejected")
       /\ (rtOut.action = "retry")
             <=> ~(\/ rtIn.global_status = "ok" /\ rtIn.next_action = "accept"
                   \/ rtIn.next_action = "rollback"
                   \/ rtIn.global_status = "rejected")

C5_Witness ==
    /\ Routed
    /\ rtIn.error_category = None
    /\ rtIn.global_status = None
    /\ rtIn.next_action = "rollback"
    /\ rtOut.action = "rollback"

\* a value that is set and, lower-cased, still outside its enumeration
Foreign(v, enum) == v # None /\ lower(v) \notin enum

\* a value that, lower-cased, is outside its enumeration (unset included)
Unrecognised(v, enum) == lower(OrEmpty(v)) \notin enum

\* C6 as stated: with error_category unset, a pair in which either value is
\* outside its enumeration resolves to retry.
C6_UnknownPairRetries ==
    (/\ Routed
     /\ rtIn.error_category = None
     /\ (\/ Foreign(rtIn.global_status, GlobalStatuses)
         \/ Foreign(rtIn.next_action, NextActions)))
    => rtOut.action = "retry"

\* C6 amended: with error_category unset, a pair in which either value is
\* outside its enumeration is never applied; it is rolled back when
\* next_action is rollback or global_status is rejected and retried otherwise.
C6_UnknownPairNeverApplies ==
    (/\ Routed
     /\ rtIn.error_category = None
     /\ (\/ Unrecognised(rtIn.global_status, GlobalStatuses)
         \/ Unrecognised(rtIn.next_action, NextActions)))
    => /\ rtOut.action # "apply"
       /\ (rtOut.action = "rollback")
             <=> (\/ lower(OrEmpty(rtIn.next_action)) = "rollback"
                  \/ lower(OrEmpty(rtIn.global_status)) = "rejected")
       /\ rtOut.action \in {"retry", "rollback"}

C6_Witness ==
    /\ Routed
    /\ rtIn.error_category = None
    /\ rtIn.global_status = "done"
    /\ rtIn.next_action = "accept"
    /\ rtOut.action = "retry"

Mapped == mapOut # "none"

\* C7: the mapping returns retry for syntax, module_incoherence, unknown and
\* every unlisted value, rollback for fatal, and rollback for policy_violation
\* under enforce (retry under any other mode); an envelope whose
\* error_category is set is routed by its category alone, never to apply.
C7_MappingTotal ==
    /\ Mapped =>
          /\ mapOut \in {"retry", "rollback"}
          /\ rtIn.error_category \in {SYNTAX, MODULE_INCOHERENCE, UNKNOWN}
                => mapOut = "retry"
          /\ rtIn.error_category = FATAL => mapOut = "rollback"
          /\ rtIn.error_category = POLICY_VIOLATION
                => mapOut = (IF rtIn.mode = "enforce" THEN "rollback" ELSE "retry")
          /\ rtIn.error_category \notin ErrorCategories => mapOut = "retry"
    /\ (Routed /\ Truthy(rtIn.error_category)) =>
          /\ rtOut.action # "apply"
          /\ rtOut.action =
                (IF rtIn.error_category \in {FATAL, POLICY_VIOLATION}
                 THEN "rollback" ELSE "retry")

C7_Witness ==
    /\ Mapped
    /\ Routed
    /\ rtIn.error_category = "timeout"
    /\ rtIn.global_status = "ok"
    /\ rtIn.next_action = "accept"
    /\ rtIn.mode = "warn"
    /\ mapOut = "retry"
    /\ rtOut.action = "retry"

BackendOps == {"apply_and_commit", "regenerate_with_acw", "rollback_and_log"}

\* C3: every run that returns has invoked exactly one backend operation,
\* one of the three, exactly once.
C3_ExactlyOneBackendCall ==
    \A i \in 1..Len(runOut) :
        runOut[i].returned
        => /\ Len(runOut[i].calls) = 1
           /\ runOut[i].calls[1] \in BackendOps

\* a run that the policy gate turned from apply into a regeneration
C3_Witness ==
    /\ runOut # <<>>
    /\ runOut[1].returned
    /\ runOut[1].decision.action = "apply"
    /\ runIn.policy # <<>>
    /\ runIn.diff_stats # <<>>
    /\ runIn.archive_dir = ArchiveDir
    /\ runOut[1].calls = <<"regenerate_with_acw">>

\* the violations the gate of run r saw
GateViolationsOf(r) ==
    Violations(runIn.policy[1], r.pb, runIn.diff_stats[1], runIn.branch_name,
               runIn.partial_ok_count_so_far)

\* run r decided apply with a policy and diffstats supplied
Gated(r) ==
    /\ r.returned
    /\ r.decision.action = "apply"
    /\ runIn.policy # <<>>
    /\ runIn.diff_stats # <<>>

\* C4: when the router decides apply and a policy and diffstats are supplied,
\* enforce with a violation invokes rollback_and_log and not apply_and_commit;
\* warn and off invoke apply_and_commit with or without violations.
C4_PolicyGate ==
    \A i \in 1..Len(runOut) :
        Gated(runOut[i])
        => /\ (runIn.policy[1].mode = "enforce" /\ GateViolationsOf(runOut[i]) # <<>>)
                 => /\ InSeq("rollback_and_log", runOut[i].calls)
                    /\ ~InSeq("apply_and_commit", runOut[i].calls)
           /\ runIn.policy[1].mode \in {"warn", "off"}
                 => InSeq("apply_and_commit", runOut[i].calls)

C4_Witness ==
    /\ runOut # <<>>
    /\ Gated(runOut[1])
    /\ runIn.policy[1].mode = "enforce"
    /\ GateViolationsOf(runOut[1]) # <<>>
    /\ runOut[1].calls = <<"rollback_and_log">>

\* C8: an evaluation under off or warn is ok whatever was found, one under
\* enforce is ok exactly when no violation was found, and the same inputs
\* give the same violation list under every mode.
C8_ModeSemantics ==
    /\ \A e \in plEvals :
          /\ e.mode \in {"off", "warn"} => e.ok
          /\ e.mode = "enforce" => (e.ok <=> e.violations = <<>>)
    /\ \A e1, e2 \in plEvals : e1.violations = e2.violations

C8_Witness ==
    \E e1, e2 \in plEvals :
        /\ e1.mode = "warn"
        /\ e2.mode = "enforce"
        /\ e1.violations # <<>>
        /\ e1.ok
        /\ ~e2.ok

\* the rollback got past the clean check
CleanOrOverridden == gmLast.args.no_clean_check \/ gmLast.before.clean

\* the rollback executed nothing and left the repository as it was
NothingDone == gmLast.steps = <<>> /\ gmLast.unchanged

\* C9: rollback-to-last-green fails with its own nonzero exit code when the
\* tree is dirty and the clean check is on (2), when there is no green tag
\* (1), and when the archive of the latest green tag's commit is missing (3);
\* in each case nothing is executed and the repository is unchanged.
C9_RollbackRefusals ==
    gmLast.op = "rollback"
    => /\ ~CleanOrOverridden => (gmLast.exit = 2 /\ NothingDone)
       /\ (CleanOrOverridden /\ ~gmLast.before.has_tag)
             => (gmLast.exit = 1 /\ NothingDone)
       /\ (CleanOrOverridden /\ gmLast.before.has_tag
              /\ ~gmLast.before.target_archived)
             => (gmLast.exit = 3 /\ NothingDone)

C9_Witness ==
    /\ gmLast.op = "rollback"
    /\ ~gmLast.args.dry_run
    /\ gmLast.before.clean
    /\ gmLast.before.has_tag
    /\ ~gmLast.before.target_archived
    /\ gmLast.exit = 3

\* C10: tag-green fails and creates nothing (no archive, no metadata record,
\* no tag, no push) when the archive of the current commit exists or when a
\* green tag for the current commit exists.
C10_TagGreenRefusesCleanly ==
    (/\ gmLast.op = "tag_green"
     /\ (gmLast.before.head_archived \/ gmLast.before.head_tagged))
    => /\ gmLast.exit # 0
       /\ gmLast.steps = <<>>
       /\ gmLast.unchanged

\* the list v holds a violation of the given kind
HasViolation(v, kind) == \E i \in 1..Len(v) : v[i][1] = kind

\* C11: each of the four metrics is reported exactly when its value is
\* strictly greater than the configured limit; with files_changed one above
\* its limit the evaluation is not ok under enforce, and ok with the
\* files_changed violation present under warn.
C11_LimitsAreStrict ==
    \A e \in plEvals :
        /\ \A m \in Metrics :
              HasViolation(e.violations, m)
                 <=> plIn.diff[m] > LimitOf(plIn.policy.limits)[m]
        /\ plIn.diff.files_changed = plIn.policy.limits.max_files_changed + 1
              => /\ e.mode = "enforce" => ~e.ok
                 /\ e.mode = "warn"
                       => (e.ok /\ HasViolation(e.violations, "files_changed"))

\* files_changed one above its limit, loc_added on its limit, evaluated under
\* enforce and under warn
C11_Witness ==
    /\ plIn.diff.files_changed = plIn.policy.limits.max_files_changed + 1
    /\ plIn.diff.loc_added = plIn.policy.limits.max_loc_added
    /\ plIn.diff.loc_deleted < plIn.policy.limits.max_loc_deleted
    /\ \E e1, e2 \in plEvals :
          /\ e1.mode = "enforce" /\ ~e1.ok
          /\ e2.mode = "warn" /\ e2.ok
          /\ HasViolation(e2.violations, "files_changed")
          /\ ~HasViolation(e2.violations, "loc_added")

\* C12: the Decision a run returns is the router's decision on the annotated
\* envelope, unchanged; when the policy gate turned an apply into a rollback
\* or a regeneration, the returned action is still apply.
C12_DecisionIsTheRouters ==
    \A i \in 1..Len(runOut) :
        runOut[i].returned
        => /\ runOut[i].decision = route_after_checks(runOut[i].pb)
           /\ (/\ runIn.policy # <<>>
               /\ runIn.diff_stats # <<>>
               /\ FallbackAction(runOut[i].decision.global_status,
                                 runOut[i].decision.next_action) = "apply"
               /\ ~Truthy(runOut[i].pb.error_category))
              => runOut[i].decision.action = "apply"

\* the gate overrode an apply: a rollback under enforce
C12_Witness ==
    /\ runOut # <<>>
    /\ runOut[1].returned
    /\ runIn.policy # <<>>
    /\ runIn.diff_stats # <<>>
    /\ runIn.policy[1].mode = "enforce"
    /\ runOut[1].calls = <<"rollback_and_log">>
    /\ runOut[1].decision.action = "apply"
    /\ runOut[1].decision.global_status = "ok"
    /\ runOut[1].decision.next_action = "accept"

\* the text holds m_begin and, somewhere after it, m_end
ContainsPair(text, m_begin, m_end) ==
    \E i, j \in 0..Len(text) :
        /\ IsAt(text, m_begin, i)
        /\ IsAt(text, m_end, j)
        /\ j >= i + Len(m_begin)

PairInFile(c) ==
    ContainsPair(CurrentText(c.pre), split_block(c.code).marker_begin,
                 split_block(c.code).marker_end)

SentinelLinesIn(lines) ==
    \E i \in 1..Len(lines) :
        /\ startswith(lines[i], BEGIN)
        /\ \E j \in (i + 1)..Len(lines) : strip(lines[j]) = END

HasSentinelLines(code) == SentinelLinesIn(splitlines(code))

\* the calls that returned
Returned == {i \in 1..Len(fsCalls) : ~fsCalls[i].raised}

\* C14: applying an envelope without a begin sentinel line, or without an end
\* sentinel line after it, raises and leaves everything as it was: the file
\* is neither created nor modified, no parent directory is created, and the
\* history gets no entry.
C14_MalformedRaisesEarly ==
    /\ \A i \in 1..Len(fsCalls) :
          ~HasSentinelLines(fsCalls[i].code)
          => /\ fsCalls[i].raised
             /\ fsCalls[i].post = fsCalls[i].pre
             /\ fsCalls[i].written = 0
    /\ Len(fsHistory) = Cardinality(Returned)

\* the end sentinel comes before the begin sentinel, the target and its
\* directory do not exist
C14_Witness ==
    /\ fsCalls # <<>>
    /\ fsCalls[1].code = END \o <<LF>> \o BEGIN
    /\ fsCalls[1].pre = NoFile
    /\ fsCalls[1].raised
    /\ fsCalls[1].post = NoFile
    /\ fsHistory = <<>>

\* the rollback ran all its steps but the last one, the push
PushFailed ==
    /\ gmLast.exit = 1
    /\ gmLast.steps # <<>>
    /\ Len(gmLast.steps) = Len(Planned(gmLast.args.strategy)) - 1

\* C15: a rollback with the default clean check, run right after a
\* successful tag-green of the mainline commit (no local modification, no
\* commit in between), succeeds unless the push is refused, and leaves the
\* working tree on mainline at the tagged commit with no modification.
C15_TagThenRollbackRestores ==
    (/\ gmLast.op = "rollback"
     /\ gmLast.after_tag
     /\ gmLast.before.on_main
     /\ ~gmLast.before.modified
     /\ ~gmLast.args.dry_run
     /\ ~gmLast.args.no_clean_check)
    => /\ gmLast.exit = 0 \/ PushFailed
       /\ gmLast.after.on_main
       /\ gmLast.after.at_target
       /\ ~gmLast.after.modified

\* C16: a dry run of rollback-to-last-green executes no command (no
\* checkout, extraction, merge, reset or push) and leaves the repository, its
\* working tree and its origin as they were; when it gets past the
\* preconditions it prints the five planned commands and exits 0.
C16_DryRunExecutesNothing ==
    (gmLast.op = "rollback" /\ gmLast.args.dry_run)
    => /\ gmLast.steps = <<>>
       /\ gmLast.unchanged
       /\ gmLast.exit = 0 <=> gmLast.planned = Planned(gmLast.args.strategy)
       /\ gmLast.exit # 0 => gmLast.planned = <<>>
       /\ (CleanOrOverridden /\ gmLast.before.target_archived) => gmLast.exit = 0

\* a dry run of the reset strategy that got past the three preconditions
C16_Witness ==
    /\ gmLast.op = "rollback"
    /\ gmLast.args.dry_run
    /\ gmLast.args.strategy = "reset"
    /\ gmLast.before.target_archived
    /\ gmLast.exit = 0
    /\ gmLast.planned =
          <<"checkout", "extract", "checkout_main", "reset", "push_force">>
    /\ gmLast.unchanged

\* the envelope's global status, set or unset, is one the gate allows
StatusAllowed(policy, pb) ==
    InSeq(lower(OrEmpty(pb.global_status)), policy.commit_gate.module_status_allow)

\* C17: with the commit gate required a file-check status other than ok is
\* reported; a global status, set or unset, that is not in the allowed set is
\* reported; under partial_ok the quota violation is reported exactly when
\* the running partial count is not below the ceiling.
C17_CommitGate ==
    \A e \in plEvals :
        /\ (/\ plIn.policy.commit_gate.require_file_checker_ok
            /\ lower(OrEmpty(plIn.pb.status_agent_file_checker)) # "ok")
           => HasViolation(e.violations, "file_checker")
        /\ ~StatusAllowed(plIn.policy, plIn.pb)
           => HasViolation(e.violations, "module_status")
        /\ plIn.pb.global_status = "partial_ok"
           => (HasViolation(e.violations, "partial_ok_quota")
                 <=> plIn.partial_ok_count_so_far
                        >= plIn.policy.commit_gate.max_partial_ok_allowed)

\* the history entry that goes with an action of the applier
EventOf(action) ==
    CASE action = "insert" -> "fs:insert"
      [] action = "replace" -> "fs:replace"
      [] action = "skip" -> "fs:skip"
      [] OTHER -> "none"

\* C18: the history only grows: every step keeps the entries it finds, in
\* place, and a call of the applier that returns appends exactly one entry,
\* the one that names the action it returned (a call that raises appends
\* none).
C18_HistoryAppendOnly ==
    [][/\ Len(fsHistory') >= Len(fsHistory)
       /\ SubSeq(fsHistory', 1, Len(fsHistory)) = fsHistory
       /\ (fsCalls' # fsCalls /\ ~fsCalls'[Len(fsCalls')].raised)
             => /\ Len(fsHistory') = Len(fsHistory) + 1
                /\ fsHistory'[Len(fsHistory')].ev
                      = EventOf(fsCalls'[Len(fsCalls')].action)
       /\ (fsCalls' # fsCalls /\ fsCalls'[Len(fsCalls')].raised)
             => fsHistory' = fsHistory]_vars

\* the writer's entries are still in place after an insert, a commit and a
\* second call of the applier, the orchestrator having run on the envelope
C18_Witness ==
    /\ Len(fsCalls) >= 2
    /\ fsCalls[1].action = "insert"
    /\ ~fsCalls[2].raised
    /\ Len(fsHistory) >= 5
    /\ fsHistory[1].ev = "fs_intent"
    /\ fsHistory[2].ev = "payload_hash"
    /\ \E k \in 1..Len(fsHistory) : fsHistory[k].ev = "git:commit_sha"
    /\ runOut # <<>>
    /\ runOut[1].returned

\* the envelope the i-th run of the orchestrator was handed
PbBefore(i) == IF i = 1 THEN runIn.pb ELSE runOut[i - 1].pb

\* C19: a global status and a next action that are set when a run of the
\* orchestrator starts are the ones the envelope carries when the run is
\* over, in the first run and in every later one.
C19_StatusWriteOnce ==
    \A i \in 1..Len(runOut) :
        /\ PbBefore(i).global_status # None
           => runOut[i].pb.global_status = PbBefore(i).global_status
        /\ PbBefore(i).next_action # None
           => runOut[i].pb.next_action = PbBefore(i).next_action

\* the text carries both sentinels and a function definition
SmokeText(code) ==
    contains(code, BEGIN) /\ contains(code, END) /\ contains(code, DefToken)

IsPy(file) == file # <<>> /\ file[Len(file)] = ".py"

SmokeCase ==
    runIn.policy = Unset /\ SmokeText(runIn.pb.code) /\ IsPy(runIn.pb.file)

C21_RouteFollowsMode ==
    (rtOut # NoDecision /\ rtIn.error_category = POLICY_VIOLATION)
    => /\ rtIn.mode = "enforce" => rtOut.action = "rollback"
       /\ rtIn.mode \in {"warn", "off"} => rtOut.action = "retry"

\* the violations the gate of the i-th run found, <<>> when it did not run
GateFound(i) ==
    IF /\ runIn.policy # <<>>
       /\ runIn.diff_stats # <<>>
       /\ route_after_checks(runOut[i].pb).action = "apply"
    THEN evaluate_patch(runIn.policy[1], runOut[i].pb, runIn.diff_stats[1],
                        runIn.branch_name, runIn.partial_ok_count_so_far).violations
    ELSE <<>>

PolicyLogs == {"policy BLOCKED", "policy RETRY", "policy WARN"}

\* C22: a run whose policy gate found violations, under enforce or under
\* warn, leaves a log entry of the orchestrator that lists them.
C22_ViolationsLogged ==
    \A i \in 1..Len(runOut) :
        (/\ runOut[i].returned
         /\ GateFound(i) # <<>>
         /\ ModeOf(runIn.policy[1]) \in {"enforce", "warn"})
        => \E k \in 1..Len(runOut[i].archive) :
              /\ runOut[i].archive[k][1] \in PolicyLogs
              /\ runOut[i].archive[k][2] = GateFound(i)

\* C23: a run whose audit snapshots cannot be written still routes the
\* envelope, calls exactly one backend operation and returns a Decision.
C23_SnapshotFailureNotFatal ==
    \A i \in 1..Len(runOut) :
        runIn.archive_dir = BadDir
        => /\ runOut[i].returned
           /\ runOut[i].decision # NoDecision
           /\ Len(runOut[i].calls) = 1

\* C24: a rollback that is carried out and exits 0, with the merge or the
\* reset strategy and whatever was committed on mainline since the tag,
\* leaves mainline checked out at the content of the latest green-tagged
\* commit.
C24_RollbackRestoresGreenTree ==
    (/\ gmLast.op = "rollback"
     /\ gmLast.exit = 0
     /\ ~gmLast.args.dry_run)
    => /\ gmLast.after.on_main
       /\ gmLast.after.at_target

\* the commit has its archive, whole, and a green tag
HeadIsGreen(repo) ==
    /\ git_sha(repo) \in repo.archives \ repo.partial
    /\ \E i \in 1..Len(repo.tags) : repo.tags[i].commit = git_sha(repo)

\* C25: tag-green run again on the same commit right after a run that failed
\* or was interrupted part-way, and meeting no failure of its own, leaves the
\* commit with both its archive and its green tag.
C25_RerunCompletesTagGreen ==
    (/\ gmLast.op = "tag_green"
     /\ gmLast.rerun
     /\ gmLast.quiet
     /\ gmLast.exit = 0 \/ gmLast.steps = <<>>)
    => HeadIsGreen(gmRepo)

\* C26: in apply_and_commit_git a failure of the branch step and a failure
\* of the push are soft (the call returns, the file is written, the commit
\* is made and its id is recorded on the envelope); a failure of add or
\* commit is hard (the call raises and no commit id is recorded).
C26_SoftAndHardFailures ==
    /\ gitOut.outcome \in {"branch_failed", "push_failed"}
       => /\ ~gitOut.raised
          /\ gitOut.wrote
          /\ gitOut.commit_sha # None
          /\ \E k \in 1..Len(fsHistory) : fsHistory[k].ev = "git:commit_sha"
    /\ gitOut.outcome = "commit_failed"
       => /\ gitOut.raised
          /\ gitOut.commit_sha = None

\* the text of the envelope holds the begin sentinel and the end sentinel
OwnSentinels(pb) == contains(pb.code, BEGIN) /\ contains(pb.code, END)

\* C27: the file checker answers ok only for an envelope whose own text
\* holds both sentinels and whose target is a .py file; an envelope whose
\* text lacks a sentinel is marked rejected.
C27_FileCheckerNeedsSentinels ==
    \A i \in 1..Len(runOut) :
        runOut[i].returned
        => /\ runOut[i].pb.status_agent_file_checker = "ok"
              => (OwnSentinels(runOut[i].pb) /\ IsPy(runOut[i].pb.file))
           /\ ~OwnSentinels(runOut[i].pb)
              => runOut[i].pb.status_agent_file_checker = "rejected"

\* the calls so far all carry the envelope as it is now
UnchangedEnvelope == \A i \in 1..Len(fsCalls) : fsCalls[i].code = fsCode

\* C28: the same well-formed envelope applied again and again settles: a
\* call returns skip (here within MaxCalls calls), and after a skip every
\* further call returns skip and leaves the file as it is.
C28_RepeatedApplySettles ==
    /\ (fsCode \in WellFormed /\ UnchangedEnvelope /\ Len(fsCalls) >= MaxCalls)
       => \E i \in 1..Len(fsCalls) : fsCalls[i].action = "skip"
    /\ \A i \in 1..(Len(fsCalls) - 1) :
          (fsCalls[i].code = fsCalls[i + 1].code /\ fsCalls[i].action = "skip")
          => /\ fsCalls[i + 1].action = "skip"
             /\ fsCalls[i + 1].post = fsCalls[i].post
             /\ fsCalls[i].post = fsCalls[i].pre

\* C29: a run calls apply_and_commit only when the router's action is apply;
\* an envelope routed to retry or rollback gets the backend operation of
\* that action and no other, the policy gate having no say on it.
C29_ApplyOnlyOnApply ==
    \A i \in 1..Len(runOut) :
        runOut[i].returned
        => /\ InSeq("apply_and_commit", runOut[i].calls)
              => route_after_checks(runOut[i].pb).action = "apply"
           /\ route_after_checks(runOut[i].pb).action = "retry"
              => runOut[i].calls = <<"regenerate_with_acw">>
           /\ route_after_checks(runOut[i].pb).action = "rollback"
              => runOut[i].calls = <<"rollback_and_log">>

\* an envelope routed to retry is run with a policy and a diff, and comes
\* out regenerated
C29_Witness ==
    /\ runOut # <<>>
    /\ runOut[1].returned
    /\ runIn.policy # <<>>
    /\ runIn.diff_stats # <<>>
    /\ runOut[1].decision.action = "retry"
    /\ runOut[1].calls = <<"regenerate_with_acw">>

\* C30: whatever runs of tag-green were made, finished or failed, every
\* green tag points at a commit whose archive is there, whole: a run that
\* does not get the archive written creates no tag.
C30_TagImpliesArchive ==
    \A i \in 1..Len(gmRepo.tags) :
        gmRepo.tags[i].commit \in gmRepo.archives \ gmRepo.partial

\* a run failed on the archive and created no tag; a later run tagged
\* another commit
C30_Witness ==
    /\ gmLast.op = "tag_green"
    /\ gmLast.n = 2
    /\ gmLast.exit = 0
    /\ Len(gmRepo.tags) = 1
    /\ gmRepo.tags[1].commit = 2
    /\ 1 \in gmRepo.metadata
    /\ 1 \notin gmRepo.archives \ gmRepo.partial

====
